---- MODULE Spec2Model ----
(***************************************************************************)
(* Model of the halu agent: the streaming tool-call scanner and turn loop  *)
(* of glad/qwen Session.Complete, and the retrying, recursive Agent.Run of *)
(* main.go.  Text is modelled as sequences of one-character strings.       *)
(***************************************************************************)
EXTENDS Integers, Sequences, FiniteSets, TLC

\* ------------------------------------------------------------------ bounds
MaxSegs == 4
MaxChunk == 3
MaxTurns == 2

\* ------------------------------------------------------- string helpers
\* strings.Fields splits around unicode.IsSpace; the input alphabet only has ' '
IsSpace(c) == c \in {" ", "\n", "\t"}

HasSuffix(s, c) == Len(s) > 0 /\ s[Len(s)] = c

HasPrefix(s, p) == Len(s) >= Len(p) /\ SubSeq(s, 1, Len(p)) = p

\* strings.Index for a one-byte needle: 0-based index of the first c, or -1
Index(s, c) ==
    IF \E i \in 1..Len(s) : s[i] = c
    THEN (CHOOSE i \in 1..Len(s) : s[i] = c /\ \A j \in 1..(i-1) : s[j] # c) - 1
    ELSE -1

\* strings.LastIndex for a one-byte needle: 0-based index of the last c, or -1
LastIndex(s, c) ==
    IF \E i \in 1..Len(s) : s[i] = c
    THEN (CHOOSE i \in 1..Len(s) : s[i] = c /\ \A j \in (i+1)..Len(s) : s[j] # c) - 1
    ELSE -1

\* strings.TrimSpace
TrimSpace(s) ==
    IF \A i \in 1..Len(s) : IsSpace(s[i]) THEN << >>
    ELSE LET lo == CHOOSE i \in 1..Len(s) : ~IsSpace(s[i]) /\ \A j \in 1..(i-1) : IsSpace(s[j])
             hi == CHOOSE i \in 1..Len(s) : ~IsSpace(s[i]) /\ \A j \in (i+1)..Len(s) : IsSpace(s[j])
         IN SubSeq(s, lo, hi)

\* ------------------------------------------------------------ sentinels
OpenTag == <<"<", "t", "o", "o", "l", "_", "c", "a", "l", "l", ">">>
CloseTag == <<"<", "/", "t", "o", "o", "l", "_", "c", "a", "l", "l", ">">>
OpenTagPrefix == <<"<", "t", "o", "o", "l", "_", "c", "a", "l", "l">>
CloseTagPrefix == <<"<", "/", "t", "o", "o", "l", "_", "c", "a", "l", "l">>
PendingLimit == 20

\* ------------------------------------------------------------- scanner
\* A bug normalizeTag could have: only the blanks at the two ends are removed
normalizeTagTrim(tag) == TrimSpace(tag)

normalizeTag(tag) == SelectSeq(tag, LAMBDA c : ~IsSpace(c))

\* A scanner state is [buf |-> tokenBuffer, text |-> the strings passed to
\* cb.Text so far, in call order].
EmptyBuf == [content |-> << >>, pending |-> << >>, toolCalls |-> << >>, inToolCall |-> FALSE]

\* A bug the scanner could have: content is passed to cb.Text also while a
\* tool call is open
tryFlushTextAlways(s) ==
    IF Len(s.buf.content) > 0
    THEN [buf |-> [s.buf EXCEPT !.content = << >>],
          text |-> Append(s.text, s.buf.content)]
    ELSE s

tryFlushText(s) ==
    IF ~s.buf.inToolCall /\ Len(s.buf.content) > 0
    THEN [buf |-> [s.buf EXCEPT !.content = << >>],
          text |-> Append(s.text, s.buf.content)]
    ELSE s

\* A bug the scanner could have: what was pending is passed to cb.Text
\* whether a tool call is open or not
tryFlushPendingEmitting(s) ==
    IF Len(s.buf.pending) > 0
    THEN tryFlushTextAlways([s EXCEPT !.buf.content = s.buf.content \o s.buf.pending,
                                      !.buf.pending = << >>])
    ELSE s

tryFlushPending(s) ==
    IF Len(s.buf.pending) > 0
    THEN LET s1 == [s EXCEPT !.buf.content = s.buf.content \o s.buf.pending,
                             !.buf.pending = << >>]
         IN IF ~s1.buf.inToolCall THEN tryFlushText(s1) ELSE s1
    ELSE s

\* One iteration of the character loop of Session.Complete
ProcessChar(s, ch) ==
    IF ch = "<"
    THEN [s EXCEPT !.buf.pending = Append(s.buf.pending, ch)]
    ELSE IF Len(s.buf.pending) > 0
    THEN LET pendingStr == Append(s.buf.pending, ch)
             s1 == [s EXCEPT !.buf.pending = pendingStr]
             normalized == normalizeTag(pendingStr)
         IN IF HasSuffix(pendingStr, ">")
            THEN IF normalized = OpenTag
                 THEN [s1 EXCEPT !.buf.inToolCall = TRUE,
                                 !.buf.content = s1.buf.content \o pendingStr,
                                 !.buf.pending = << >>]
                 ELSE IF normalized = CloseTag
                 THEN [s1 EXCEPT !.buf.toolCalls =
                                     Append(s1.buf.toolCalls, s1.buf.content \o pendingStr),
                                 !.buf.content = << >>,
                                 !.buf.pending = << >>,
                                 !.buf.inToolCall = FALSE]
                 ELSE IF ~HasPrefix(normalized, OpenTagPrefix)
                         /\ ~HasPrefix(normalized, CloseTagPrefix)
                 THEN tryFlushPending(s1)
                 ELSE s1
            ELSE IF Len(pendingStr) > PendingLimit
                 THEN tryFlushPending(s1)
                 ELSE s1
    ELSE tryFlushText([s EXCEPT !.buf.content = Append(s.buf.content, ch)])

\* The character loop "for i := 0; i < len(content); i++": the buffer after
\* one character is computed before the next character is looked at
RECURSIVE ProcessChars(_, _)
ProcessChars(s, content) ==
    IF content = << >> THEN s
    ELSE LET s1 == ProcessChar(s, Head(content))
         IN IF s1 = s THEN ProcessChars(s, Tail(content))
            ELSE ProcessChars(s1, Tail(content))

\* A bug the scanner could have: what is pending at the end of a fragment is
\* flushed instead of being kept for the next fragment
ProcessContentFlushing(s, content) == tryFlushPending(ProcessChars(s, content))

\* What Session.Complete does with the content of one delivered fragment;
\* the tokenBuffer lives outside the read loop and is carried to the next one
ProcessContent(s, content) == ProcessChars(s, content)

\* A bug the scanner could have: what is still pending at the end of the
\* stream is not flushed
FinalFlushTextOnly(s) == tryFlushText(s)

\* The final flushes after the read loop
FinalFlush(s) == tryFlushText(tryFlushPending(s))

\* ------------------------------------------------- tool-call decoding
\* encoding/json over the subset the streams use: one flat object whose keys
\* are strings and whose values are strings or unsigned integers, with
\* optional blanks between tokens.  Anything else is a syntax error.
IsDigit(c) == c \in {"0", "1", "2", "3", "4", "5", "6", "7", "8", "9"}

RECURSIVE SkipWs(_, _)
SkipWs(s, i) == IF i <= Len(s) /\ IsSpace(s[i]) THEN SkipWs(s, i + 1) ELSE i

RECURSIVE DigitsEnd(_, _)
DigitsEnd(s, i) == IF i <= Len(s) /\ IsDigit(s[i]) THEN DigitsEnd(s, i + 1) ELSE i

JsonFail == [ok |-> FALSE]

\* a string literal starting at the quote s[i]
ScanString(s, i) ==
    IF \E j \in (i+1)..Len(s) : s[j] = "\""
    THEN LET j == CHOOSE j \in (i+1)..Len(s) :
                      s[j] = "\"" /\ \A k \in (i+1)..(j-1) : s[k] # "\""
         IN [ok |-> TRUE, val |-> SubSeq(s, i + 1, j - 1), next |-> j + 1]
    ELSE JsonFail

ScanValue(s, i) ==
    IF i > Len(s) THEN JsonFail
    ELSE IF s[i] = "\""
    THEN LET r == ScanString(s, i)
         IN IF r.ok THEN [ok |-> TRUE, val |-> [type |-> "string", val |-> r.val],
                          next |-> r.next]
            ELSE JsonFail
    ELSE IF IsDigit(s[i])
    THEN LET e == DigitsEnd(s, i)
         IN IF s[i] = "0" /\ e > i + 1 THEN JsonFail
            ELSE [ok |-> TRUE, val |-> [type |-> "number", val |-> SubSeq(s, i, e - 1)],
                  next |-> e]
    ELSE JsonFail

\* the members of an object from the key at s[i] on; a repeated key keeps the
\* last value, as decoding into a Go map does
RECURSIVE ScanMembers(_, _, _)
ScanMembers(s, i, acc) ==
    IF i > Len(s) \/ s[i] # "\"" THEN JsonFail
    ELSE LET k == ScanString(s, i)
         IN IF ~k.ok THEN JsonFail
            ELSE LET c == SkipWs(s, k.next)
                 IN IF c > Len(s) \/ s[c] # ":" THEN JsonFail
                    ELSE LET v == ScanValue(s, SkipWs(s, c + 1))
                         IN IF ~v.ok THEN JsonFail
                            ELSE LET acc1 == [x \in (DOMAIN acc) \cup {k.val} |->
                                                 IF x = k.val THEN v.val ELSE acc[x]]
                                     e == SkipWs(s, v.next)
                                 IN IF e > Len(s) THEN JsonFail
                                    ELSE IF s[e] = ","
                                    THEN ScanMembers(s, SkipWs(s, e + 1), acc1)
                                    ELSE IF s[e] = "}"
                                    THEN [ok |-> TRUE, val |-> acc1, next |-> e + 1]
                                    ELSE JsonFail

\* json.Unmarshal([]byte(jsonStr), &call) with call a map[string]any
Unmarshal(s) ==
    LET i == SkipWs(s, 1)
    IN IF i > Len(s) \/ s[i] # "{" THEN JsonFail
       ELSE LET j == SkipWs(s, i + 1)
                r == IF j <= Len(s) /\ s[j] = "}"
                     THEN [ok |-> TRUE, val |-> << >>, next |-> j + 1]
                     ELSE ScanMembers(s, j, << >>)
            IN IF r.ok /\ SkipWs(s, r.next) > Len(s)
               THEN [ok |-> TRUE, call |-> r.val]
               ELSE JsonFail

NameKey == <<"n", "a", "m", "e">>

\* A bug the decoding could have: the payload is cut from the '>' of the open
\* tag instead of from the character after it
DecodeCallFromTag(rawCall) ==
    LET start == Index(rawCall, ">")
        end == LastIndex(rawCall, "<")
    IN IF start > 0 /\ end > start
       THEN LET u == Unmarshal(TrimSpace(SubSeq(rawCall, start + 1, end)))
            IN IF u.ok /\ NameKey \in DOMAIN u.call /\ u.call[NameKey].type = "string"
               THEN [ok |-> TRUE, name |-> u.call[NameKey].val, call |-> u.call]
               ELSE [ok |-> FALSE]
       ELSE [ok |-> FALSE]

\* The body of the loop over buf.toolCalls up to the callback: the decoded
\* call of one raw span, or ok = FALSE when the span is skipped.
DecodeCall(rawCall) ==
    LET start == Index(rawCall, ">") + 1
        end == LastIndex(rawCall, "<")
    IN IF start > 0 /\ end > start
       THEN LET u == Unmarshal(TrimSpace(SubSeq(rawCall, start + 1, end)))
            IN IF u.ok /\ NameKey \in DOMAIN u.call /\ u.call[NameKey].type = "string"
               THEN [ok |-> TRUE, name |-> u.call[NameKey].val, call |-> u.call]
               ELSE [ok |-> FALSE]
       ELSE [ok |-> FALSE]

\* ------------------------------------------------- streamed responses
RECURSIVE Concat(_)
Concat(ss) == IF ss = << >> THEN << >> ELSE Head(ss) \o Concat(Tail(ss))

OpenTagPadded == <<"<", "t", "o", "o", "l", "_", "c", "a", "l", "l", " ", ">">>
PayloadT == <<"{", "\"", "n", "a", "m", "e", "\"", ":", "\"", "t", "\"", "}">>
PayloadU == <<"{", "\"", "n", "a", "m", "e", "\"", ":", "\"", "u", "\"", ",",
              "\"", "x", "\"", ":", "1", "}">>
PayloadNoName == <<"{", "\"", "x", "\"", ":", "1", "}">>
PayloadBroken == <<"{", "\"", "n", "a", "m", "e", "\"", ":">>

BlockOf(payload) == OpenTag \o payload \o CloseTag

\* The pieces a response text of the scanner specification is made of
Segments == { <<"x">>, <<" ">>, <<"<">>, <<">">>,
              OpenTag, OpenTagPadded, CloseTag, PayloadT, PayloadU }

ScanTexts == { Concat(f) : f \in UNION { [1..n -> Segments] : n \in 0..MaxSegs } }

\* The response texts of the turn-loop specification
TurnTexts == { <<"o", "k">>,
               <<"x">> \o BlockOf(PayloadT) \o <<"y">>,
               BlockOf(PayloadT) \o <<" ">> \o BlockOf(<<" ">> \o PayloadU \o <<" ">>),
               BlockOf(PayloadBroken) \o BlockOf(PayloadU),
               BlockOf(PayloadT) \o BlockOf(PayloadNoName) \o BlockOf(PayloadU),
               BlockOf(PayloadNoName),
               <<"a", " ", "<", " ", "b">>,
               <<"x">> \o OpenTag \o PayloadT,
               CloseTag }

\* The response texts of the sentinel specification: one block between two
\* plain characters, one of its sentinels padded with blanks
Blanks(n) == [i \in 1..n |-> " "]

PadAt(tag, i, n) == SubSeq(tag, 1, i) \o Blanks(n) \o SubSeq(tag, i + 1, Len(tag))

PadAmounts == {0, 1, 2, 9, 10, 11}

Padded(tag) ==
    { PadAt(tag, i, n) : i \in 1..(Len(tag) - 1), n \in PadAmounts }
    \cup { PadAt(PadAt(tag, Len(tag) - 1, n), 1, n) : n \in {1, 2, 3, 4, 5} }

TagTexts ==
    { <<"x">> \o o \o PayloadT \o CloseTag \o <<"y">> : o \in Padded(OpenTag) }
    \cup { <<"x">> \o OpenTag \o PayloadT \o c \o <<"y">> : c \in Padded(CloseTag) }

\* The response texts of the lookahead specification: a run of one
\* character after plain text, after an unfinished tag, or after a block
Rep(c, n) == [i \in 1..n |-> c]

RunLengths == {1, 11, 21, 22, 23}

RunTexts ==
    { pre \o Rep(c, n) \o <<"y">> :
         pre \in { <<"x">>, OpenTagPrefix \o <<"x">>, BlockOf(PayloadT) },
         c \in {"<", ">", "a"},
         n \in RunLengths }

ToolResults == { <<"r">>, <<"s">> }

SystemPrompt == <<"S">>
UserPrompt == <<"U">>

\* ------------------------------------------------------ Session state
VARIABLES messages,     \* Session.messages
          pc,           \* where Session.Complete stands
          stream,       \* the text the server sends in the current model call
          pos,          \* how much of it has been delivered
          fullContent,  \* Complete's fullContent
          buf,          \* Complete's tokenBuffer
          text,         \* the strings passed to cb.Text in this model call
          toolLog,      \* the calls made to cb.Tool, in order
          idx,          \* position of the loop over buf.toolCalls
          turns         \* model calls made by this interaction

svars == <<messages, pc, stream, pos, fullContent, buf, text, toolLog, idx, turns>>

\* -------------------------------------------------------- Agent state
VARIABLES mainMessages,  \* main's messages: the transcript kept between interactions
          totals,        \* main's totalInputTokens / totalOutputTokens
          interactions,  \* prompts main has passed to Agent.Run
          apc,           \* where main / Agent.Run stands
          runMessages,   \* messages of the innermost Run frame
          streamParams,  \* streamParams of the innermost Run frame
          frames,        \* tokenUsage of every active Run frame, outermost first
          attempt,       \* attempt of the retry loop
          message,       \* message accumulated by the current attempt
          lastErr,       \* classification of the last stream.Err()
          sent,          \* the requests of the streams opened for this model call
          display,       \* text deltas printed during this model call
          toolExec,      \* the tools executed, in order
          ret,           \* what the returning Run frame returns
          calls,         \* model calls (Run frames) started so far
          callUsage,     \* the usage each ended model call of the interaction recorded
          cancelled,     \* ctx.Done() is closed
          prompt         \* the prompt of the Run frame entered last

avars == <<mainMessages, totals, interactions, apc, runMessages, streamParams, frames,
           attempt, message, lastErr, sent, display, toolExec, ret, calls, callUsage,
           cancelled, prompt>>

vars == <<svars, avars>>

Msg(role, content) == [Role |-> role, Content |-> content]

\* LLM.NewSession: the transcript starts with the system turn
NewSession ==
    /\ messages = <<Msg("system", SystemPrompt)>>
    /\ pc = "new"
    /\ stream = << >>
    /\ pos = 0
    /\ fullContent = << >>
    /\ buf = EmptyBuf
    /\ text = << >>
    /\ toolLog = << >>
    /\ idx = 0
    /\ turns = 0

\* A bug User could have: the prompt starts the transcript anew
UserFresh ==
    /\ pc = "new"
    /\ messages' = <<Msg("user", UserPrompt)>>
    /\ pc' = "ready"
    /\ UNCHANGED <<stream, pos, fullContent, buf, text, toolLog, idx, turns>>
    /\ UNCHANGED avars

\* Session.User
User ==
    /\ pc = "new"
    /\ messages' = Append(messages, Msg("user", UserPrompt))
    /\ pc' = "ready"
    /\ UNCHANGED <<stream, pos, fullContent, buf, text, toolLog, idx, turns>>
    /\ UNCHANGED avars

\* Entry of Session.Complete up to the read loop: the request is sent and the
\* server answers 200 with a response whose text is t
OpenStream(t) ==
    /\ stream' = t
    /\ pos' = 0
    /\ fullContent' = << >>
    /\ buf' = EmptyBuf
    /\ text' = << >>
    /\ idx' = 0
    /\ turns' = turns + 1
    /\ pc' = "stream"

Complete(Texts) ==
    /\ pc = "ready"
    /\ \E t \in Texts : OpenStream(t)
    /\ UNCHANGED <<messages, toolLog>>
    /\ UNCHANGED avars

\* Entry of Session.Complete when the request fails or the status is not 200
CompleteFail ==
    /\ pc = "ready"
    /\ pc' = "error"
    /\ UNCHANGED <<messages, stream, pos, fullContent, buf, text, toolLog, idx, turns>>
    /\ UNCHANGED avars

\* One pass of the read loop with a non-empty delta of n characters
Feed ==
    /\ pc = "stream"
    /\ \E n \in 1..MaxChunk :
         /\ pos + n <= Len(stream)
         /\ LET content == SubSeq(stream, pos + 1, pos + n)
                s == ProcessContent([buf |-> buf, text |-> text], content)
            IN /\ fullContent' = fullContent \o content
               /\ buf' = s.buf
               /\ text' = s.text
         /\ pos' = pos + n
    /\ UNCHANGED <<messages, pc, stream, toolLog, idx, turns>>
    /\ UNCHANGED avars

\* The read loop fails: reader error other than EOF, or an undecodable line
StreamError ==
    /\ pc = "stream"
    /\ pc' = "error"
    /\ UNCHANGED <<messages, stream, pos, fullContent, buf, text, toolLog, idx, turns>>
    /\ UNCHANGED avars

\* A bug the end of the read loop could have: the assistant turn is not
\* appended
EndStreamNoTurn ==
    /\ pc = "stream"
    /\ pos = Len(stream)
    /\ LET s == FinalFlush([buf |-> buf, text |-> text])
       IN /\ buf' = s.buf
          /\ text' = s.text
    /\ idx' = 1
    /\ pc' = "tools"
    /\ UNCHANGED <<messages, stream, pos, fullContent, toolLog, turns>>
    /\ UNCHANGED avars

\* EOF or [DONE]: final flushes, then the assistant turn is appended
EndStream ==
    /\ pc = "stream"
    /\ pos = Len(stream)
    /\ LET s == FinalFlush([buf |-> buf, text |-> text])
       IN /\ buf' = s.buf
          /\ text' = s.text
    /\ messages' = Append(messages, Msg("assistant", fullContent))
    /\ idx' = 1
    /\ pc' = "tools"
    /\ UNCHANGED <<stream, pos, fullContent, toolLog, turns>>
    /\ UNCHANGED avars

\* A bug the loop over buf.toolCalls could have: a span that cannot be
\* decoded ends the loop
ToolStepStopping ==
    /\ pc = "tools"
    /\ idx <= Len(buf.toolCalls)
    /\ LET d == DecodeCall(buf.toolCalls[idx])
       IN IF d.ok
          THEN \E result \in ToolResults :
                 /\ toolLog' = Append(toolLog, [turn |-> turns, name |-> d.name,
                                                arg |-> d.call, result |-> result])
                 /\ messages' = Append(messages, Msg("system", result \o <<"\n">>))
                 /\ idx' = idx + 1
          ELSE /\ UNCHANGED <<messages, toolLog>>
               /\ idx' = Len(buf.toolCalls) + 1
    /\ UNCHANGED <<pc, stream, pos, fullContent, buf, text, turns>>
    /\ UNCHANGED avars

\* One iteration of the loop over buf.toolCalls
ToolStep ==
    /\ pc = "tools"
    /\ idx <= Len(buf.toolCalls)
    /\ LET d == DecodeCall(buf.toolCalls[idx])
       IN IF d.ok
          THEN \E result \in ToolResults :
                 /\ toolLog' = Append(toolLog, [turn |-> turns, name |-> d.name,
                                                arg |-> d.call, result |-> result])
                 /\ messages' = Append(messages, Msg("system", result \o <<"\n">>))
          ELSE UNCHANGED <<messages, toolLog>>
    /\ idx' = idx + 1
    /\ UNCHANGED <<pc, stream, pos, fullContent, buf, text, turns>>
    /\ UNCHANGED avars

\* A bug the turn loop could have: the next model call is made as soon as
\* the first collected call has been handled
RecurseAfterFirst(Texts) ==
    /\ pc = "tools"
    /\ idx > 1
    /\ Len(buf.toolCalls) > 0
    /\ turns < MaxTurns
    /\ \E t \in Texts : OpenStream(t)
    /\ UNCHANGED <<messages, toolLog>>
    /\ UNCHANGED avars

\* After the loop, len(buf.toolCalls) > 0: the recursive Complete
Recurse(Texts) ==
    /\ pc = "tools"
    /\ idx > Len(buf.toolCalls)
    /\ Len(buf.toolCalls) > 0
    /\ turns < MaxTurns
    /\ \E t \in Texts : OpenStream(t)
    /\ UNCHANGED <<messages, toolLog>>
    /\ UNCHANGED avars

\* The recursive Complete fails on entry
RecurseFail ==
    /\ pc = "tools"
    /\ idx > Len(buf.toolCalls)
    /\ Len(buf.toolCalls) > 0
    /\ pc' = "error"
    /\ UNCHANGED <<messages, stream, pos, fullContent, buf, text, toolLog, idx, turns>>
    /\ UNCHANGED avars

\* After the loop, no tool call was collected: return nil
Return ==
    /\ pc = "tools"
    /\ idx > Len(buf.toolCalls)
    /\ Len(buf.toolCalls) = 0
    /\ pc' = "done"
    /\ UNCHANGED <<messages, stream, pos, fullContent, buf, text, toolLog, idx, turns>>
    /\ UNCHANGED avars

\* =================================================================== Agent
MaxCalls == 2

maxRetries == 10

\* the names registerTools puts into a.tools
Registry == {"read_file", "list_files"}

TextBlock(t) == [Type |-> "text", Text |-> t]
ToolUseBlock(id, name) == [Type |-> "tool_use", ID |-> id, Name |-> name]

\* What the model may answer to one request: content blocks and final usage
Responses ==
    { [Content |-> <<TextBlock("hi")>>, In |-> 2, Out |-> 1],
      [Content |-> <<TextBlock("hi"), ToolUseBlock("a", "read_file")>>, In |-> 2, Out |-> 1],
      [Content |-> <<ToolUseBlock("a", "read_file"), ToolUseBlock("b", "list_files")>>,
       In |-> 0, Out |-> 2],
      [Content |-> <<ToolUseBlock("a", "bogus")>>, In |-> 2, Out |-> 0],
      [Content |-> <<ToolUseBlock("a", "read_file"), ToolUseBlock("b", "bogus")>>,
       In |-> 2, Out |-> 1] }

\* The events of the stream of one response, before the terminal message_stop
Events(resp) ==
    <<[Type |-> "message_start", In |-> resp.In]>>
    \o [i \in 1..Len(resp.Content) |-> [Type |-> "content_block", Block |-> resp.Content[i]]]
    \o <<[Type |-> "message_delta", Out |-> resp.Out]>>

EmptyMessage == [Content |-> << >>, Usage |-> [InputTokens |-> 0, OutputTokens |-> 0]]

\* message.Accumulate(event)
Accumulate(m, event) ==
    IF event.Type = "message_start"
    THEN [Content |-> << >>, Usage |-> [InputTokens |-> event.In, OutputTokens |-> 0]]
    ELSE IF event.Type = "content_block"
    THEN [m EXCEPT !.Content = Append(m.Content, event.Block)]
    ELSE [m EXCEPT !.Usage.OutputTokens = event.Out]

\* A bug the event loop could have: the output counter of a message_delta
\* event is added to what the attempts before have left
StreamEventAdding(st, event) ==
    [message |-> Accumulate(st.message, event),
     tokenUsage |-> IF event.Type = "message_delta"
                    THEN [st.tokenUsage EXCEPT
                             !.OutputTokens = st.tokenUsage.OutputTokens + event.Out]
                    ELSE st.tokenUsage,
     display |-> IF event.Type = "content_block" /\ event.Block.Type = "text"
                 THEN Append(st.display, event.Block.Text)
                 ELSE st.display]

\* One pass of the loop `for stream.Next()`; st holds the message, the
\* frame's tokenUsage and what has been printed
StreamEvent(st, event) ==
    [message |-> Accumulate(st.message, event),
     tokenUsage |-> IF event.Type = "message_delta"
                    THEN [st.tokenUsage EXCEPT !.OutputTokens = event.Out]
                    ELSE st.tokenUsage,
     display |-> IF event.Type = "content_block" /\ event.Block.Type = "text"
                 THEN Append(st.display, event.Block.Text)
                 ELSE st.display]

RECURSIVE StreamLoop(_, _)
StreamLoop(st, events) ==
    IF events = << >> THEN st
    ELSE StreamLoop(StreamEvent(st, Head(events)), Tail(events))

\* "Get final token usage from the complete message"
FinalUsage(tu, m) ==
    [InputTokens |-> IF m.Usage.InputTokens > 0 THEN m.Usage.InputTokens ELSE tu.InputTokens,
     OutputTokens |-> IF m.Usage.OutputTokens > 0 THEN m.Usage.OutputTokens
                      ELSE tu.OutputTokens]

\* message.ToParam()
ToParam(m) == [Role |-> "assistant", Content |-> m.Content]

NewUserMessage(block) == [Role |-> "user", Content |-> <<block>>]

NewToolResultBlock(id, result) ==
    [Type |-> "tool_result", ToolUseID |-> id, Content |-> result, IsError |-> FALSE]

NoErr == [kind |-> "none"]

NoRet == [final |-> << >>, messages |-> << >>, err |-> NoErr]

\* main before its conversation loop
NewAgent ==
    /\ mainMessages = << >>
    /\ totals = [InputTokens |-> 0, OutputTokens |-> 0]
    /\ interactions = 0
    /\ apc = "input"
    /\ runMessages = << >>
    /\ streamParams = [Messages |-> << >>, Tools |-> Registry]
    /\ frames = << >>
    /\ attempt = 0
    /\ message = EmptyMessage
    /\ lastErr = "none"
    /\ sent = << >>
    /\ display = << >>
    /\ toolExec = << >>
    /\ ret = NoRet
    /\ calls = 0
    /\ callUsage = << >>
    /\ cancelled = FALSE
    /\ prompt = << >>

\* the Agent is not part of the Session specifications
NoAgent ==
    /\ mainMessages = << >>
    /\ totals = [InputTokens |-> 0, OutputTokens |-> 0]
    /\ interactions = 0
    /\ apc = "off"
    /\ runMessages = << >>
    /\ streamParams = [Messages |-> << >>, Tools |-> Registry]
    /\ frames = << >>
    /\ attempt = 0
    /\ message = EmptyMessage
    /\ lastErr = "none"
    /\ sent = << >>
    /\ display = << >>
    /\ toolExec = << >>
    /\ ret = NoRet
    /\ calls = 0
    /\ callUsage = << >>
    /\ cancelled = FALSE
    /\ prompt = << >>

\* the Session is not part of the Agent specifications
NoSession ==
    /\ messages = << >>
    /\ pc = "off"
    /\ stream = << >>
    /\ pos = 0
    /\ fullContent = << >>
    /\ buf = EmptyBuf
    /\ text = << >>
    /\ toolLog = << >>
    /\ idx = 0
    /\ turns = 0

EstimateTokens == 3

\* A bug the entry could have: the user turn is appended whatever the prompt
RunEntryAlways(p0, msgs) ==
    /\ runMessages' = Append(msgs, NewUserMessage(TextBlock(p0)))
    /\ streamParams' = [Messages |-> runMessages', Tools |-> Registry]
    /\ \E est \in IF cancelled THEN {0} ELSE {0, EstimateTokens} :
         frames' = Append(frames, [InputTokens |-> est, OutputTokens |-> 0])
    /\ attempt' = 1
    /\ message' = EmptyMessage
    /\ lastErr' = "none"
    /\ sent' = << >>
    /\ display' = << >>
    /\ calls' = calls + 1
    /\ ret' = NoRet
    /\ prompt' = p0
    /\ apc' = "retry"

\* Agent.Run from its entry to the retry loop: the user turn, streamParams
\* and the CountTokens estimate (0 when CountTokens fails)
RunEntry(p0, msgs) ==
    /\ runMessages' = IF TrimSpace(p0) # << >>
                      THEN Append(msgs, NewUserMessage(TextBlock(p0)))
                      ELSE msgs
    /\ streamParams' = [Messages |-> runMessages', Tools |-> Registry]
    /\ \E est \in IF cancelled THEN {0} ELSE {0, EstimateTokens} :
         frames' = Append(frames, [InputTokens |-> est, OutputTokens |-> 0])
    /\ attempt' = 1
    /\ message' = EmptyMessage
    /\ lastErr' = "none"
    /\ sent' = << >>
    /\ display' = << >>
    /\ calls' = calls + 1
    /\ ret' = NoRet
    /\ prompt' = p0
    /\ apc' = "retry"

Inputs == { << >>, <<" ">>, <<"p">> }

\* main's loop up to agent.Run: an empty input ends the program
MainInput ==
    /\ apc = "input"
    /\ calls < MaxCalls
    /\ \E input \in Inputs :
         IF input = << >>
         THEN /\ apc' = "exit"
              /\ UNCHANGED <<runMessages, streamParams, frames, attempt, message, lastErr,
                             sent, display, calls, ret, interactions, prompt>>
         ELSE /\ RunEntry(input, mainMessages)
              /\ interactions' = interactions + 1
    /\ UNCHANGED <<mainMessages, totals, toolExec, callUsage, cancelled>>
    /\ UNCHANGED svars

\* how a stream can end: completed, a mid-stream server error, a rejected
\* request, or the context's cancellation
Outcomes == IF cancelled THEN {"cancelled"} ELSE {"ok", "transient", "fatal"}

\* A bug the retry loop could have: the ceiling is reached one attempt early
CanRetryOneLess(a) == a + 1 < maxRetries

\* "if attempt < maxRetries { ...; continue }"
CanRetry(a) == a < maxRetries

\* "message = anthropic.Message{}": every attempt starts from an empty
\* message, whatever the attempt before it has accumulated
ResetMessage(m) == EmptyMessage

\* One iteration of the retry loop, from the opening of the stream to the
\* next opening.  A failed attempt that may be retried continues the loop;
\* the last one returns the error; a completed stream leaves the loop,
\* records the usage and appends the assistant turn.
Attempt ==
    /\ apc = "retry"
    /\ attempt <= maxRetries
    /\ sent' = Append(sent, streamParams)
    /\ \E resp \in Responses, outcome \in Outcomes :
       \E n \in IF outcome = "ok" THEN {Len(Events(resp))}
                ELSE IF outcome = "fatal" THEN {0}
                ELSE 0..Len(Events(resp)) :
         LET st == StreamLoop([message |-> message,
                               tokenUsage |-> frames[Len(frames)],
                               display |-> display],
                              SubSeq(Events(resp), 1, n))
         IN /\ display' = st.display
            /\ IF outcome # "ok"
               THEN /\ lastErr' = outcome
                    /\ frames' = [frames EXCEPT ![Len(frames)] = st.tokenUsage]
                    /\ UNCHANGED runMessages
                    /\ IF CanRetry(attempt)
                       THEN /\ attempt' = attempt + 1
                            /\ message' = ResetMessage(st.message)
                            /\ UNCHANGED <<apc, ret, callUsage>>
                       ELSE /\ ret' = [final |-> << >>, messages |-> runMessages,
                                       err |-> [kind |-> "streaming", cause |-> outcome]]
                            /\ apc' = "return"
                            /\ message' = st.message
                            /\ callUsage' = Append(callUsage, st.tokenUsage)
                            /\ UNCHANGED attempt
               ELSE /\ message' = st.message
                    /\ frames' = [frames EXCEPT ![Len(frames)] =
                                      FinalUsage(st.tokenUsage, st.message)]
                    /\ callUsage' = Append(callUsage,
                                           FinalUsage(st.tokenUsage, st.message))
                    /\ runMessages' = Append(runMessages, ToParam(st.message))
                    /\ apc' = "tools"
                    /\ UNCHANGED <<attempt, lastErr, ret>>
    /\ UNCHANGED <<mainMessages, totals, interactions, streamParams, toolExec, calls,
                   cancelled, prompt>>
    /\ UNCHANGED svars

ToolUses(m) == SelectSeq(m.Content, LAMBDA b : b.Type = "tool_use")

RECURSIVE TextOf(_)
TextOf(blocks) ==
    IF blocks = << >> THEN << >>
    ELSE (IF Head(blocks).Type = "text" THEN <<Head(blocks).Text>> ELSE << >>)
         \o TextOf(Tail(blocks))

ToolOutcomes == {"ok", "err"}

\* what tool.Execute returns: a result and no error, or an empty result and
\* an error with a description
Execute(outcome) ==
    IF outcome = "ok" THEN [result |-> <<"result">>, err |-> ""]
    ELSE [result |-> << >>, err |-> "failed"]

\* A bug the tool loop could have: the result of Execute is used as it is
ToolResultTextRaw(r) == r.result

\* the result text Run builds: Execute's result, or on an error
\* Sprintf("tool execution failed: %s", Sprintf("Error: %v", err))
ToolResultText(r) ==
    IF r.err = "" THEN r.result
    ELSE <<"tool execution failed: ", "Error: ", r.err>>

\* The loop over message.Content and what follows it: the first tool_use
\* block is looked up and executed and its result appended, after which Run
\* calls itself; without a tool_use block Run returns the text
ToolLoop ==
    /\ apc = "tools"
    /\ IF ToolUses(message) = << >>
       THEN /\ ret' = [final |-> TextOf(message.Content), messages |-> runMessages,
                       err |-> NoErr]
            /\ apc' = "return"
            /\ UNCHANGED <<runMessages, toolExec>>
       ELSE LET block == Head(ToolUses(message))
            IN IF block.Name \notin Registry
               THEN /\ ret' = [final |-> << >>, messages |-> runMessages,
                               err |-> [kind |-> "unknown tool", cause |-> block.Name]]
                    /\ apc' = "return"
                    /\ UNCHANGED <<runMessages, toolExec>>
               ELSE \E outcome \in ToolOutcomes :
                      /\ toolExec' = Append(toolExec, [call |-> calls, id |-> block.ID,
                                                       name |-> block.Name,
                                                       err |-> Execute(outcome).err])
                      /\ runMessages' = Append(runMessages, NewUserMessage(
                             NewToolResultBlock(block.ID,
                                                ToolResultText(Execute(outcome)))))
                      /\ apc' = "recurse"
                      /\ UNCHANGED ret
    /\ UNCHANGED <<mainMessages, totals, interactions, streamParams, frames, attempt,
                   message, lastErr, sent, display, calls, callUsage, cancelled, prompt>>
    /\ UNCHANGED svars

\* a.Run(ctx, "", messages)
RunRecursive ==
    /\ apc = "recurse"
    /\ calls < MaxCalls
    /\ RunEntry(<< >>, runMessages)
    /\ UNCHANGED <<mainMessages, totals, interactions, toolExec, callUsage, cancelled>>
    /\ UNCHANGED svars

\* A bug the return from the recursion could have: the usage of a call that
\* returned an error is not added
RunReturnDroppingOnError ==
    /\ apc = "return"
    /\ Len(frames) > 1
    /\ LET k == Len(frames)
       IN frames' = IF ret.err # NoErr THEN SubSeq(frames, 1, k - 1)
                    ELSE Append(SubSeq(frames, 1, k - 2),
                           [InputTokens |-> frames[k-1].InputTokens + frames[k].InputTokens,
                            OutputTokens |-> frames[k-1].OutputTokens
                                             + frames[k].OutputTokens])
    /\ UNCHANGED <<mainMessages, totals, interactions, apc, runMessages, streamParams,
                   attempt, message, lastErr, sent, display, toolExec, ret, calls,
                   callUsage, cancelled, prompt>>
    /\ UNCHANGED svars

\* A recursive Run has returned: its usage is added and its results are
\* returned unchanged
RunReturn ==
    /\ apc = "return"
    /\ Len(frames) > 1
    /\ LET k == Len(frames)
       IN frames' = Append(SubSeq(frames, 1, k - 2),
                           [InputTokens |-> frames[k-1].InputTokens + frames[k].InputTokens,
                            OutputTokens |-> frames[k-1].OutputTokens
                                             + frames[k].OutputTokens])
    /\ UNCHANGED <<mainMessages, totals, interactions, apc, runMessages, streamParams,
                   attempt, message, lastErr, sent, display, toolExec, ret, calls,
                   callUsage, cancelled, prompt>>
    /\ UNCHANGED svars

\* agent.Run has returned to main: on an error main continues with its old
\* messages and totals
MainReturn ==
    /\ apc = "return"
    /\ Len(frames) = 1
    /\ IF ret.err # NoErr
       THEN UNCHANGED <<mainMessages, totals>>
       ELSE /\ mainMessages' = ret.messages
            /\ totals' = [InputTokens |-> totals.InputTokens + frames[1].InputTokens,
                          OutputTokens |-> totals.OutputTokens + frames[1].OutputTokens]
    /\ frames' = << >>
    /\ runMessages' = << >>
    /\ streamParams' = [Messages |-> << >>, Tools |-> Registry]
    /\ attempt' = 0
    /\ message' = EmptyMessage
    /\ lastErr' = "none"
    /\ sent' = << >>
    /\ display' = << >>
    /\ ret' = NoRet
    /\ callUsage' = << >>
    /\ prompt' = << >>
    /\ apc' = "input"
    /\ UNCHANGED <<interactions, toolExec, calls, cancelled>>
    /\ UNCHANGED svars

\* the caller cancels the context passed to Agent.Run
Cancel ==
    /\ apc \in {"retry", "tools", "recurse"}
    /\ ~cancelled
    /\ cancelled' = TRUE
    /\ UNCHANGED <<mainMessages, totals, interactions, apc, runMessages, streamParams,
                   frames, attempt, message, lastErr, sent, display, toolExec, ret, calls,
                   callUsage, prompt>>
    /\ UNCHANGED svars

InitAgent == NewAgent /\ NoSession

\* main with its background context
NextAgent ==
    \/ MainInput
    \/ Attempt
    \/ ToolLoop
    \/ RunRecursive
    \/ RunReturn
    \/ MainReturn

SpecAgent == InitAgent /\ [][NextAgent]_vars

\* Agent.Run under a context its caller may cancel
NextCancel ==
    \/ MainInput
    \/ Attempt
    \/ ToolLoop
    \/ RunRecursive
    \/ RunReturn
    \/ MainReturn
    \/ Cancel

SpecCancel == InitAgent /\ [][NextCancel]_vars

\* ================================================= specifications
\* One model call over the rich response texts: the scanner
NextScan ==
    \/ User
    \/ Complete(ScanTexts)
    \/ Feed
    \/ EndStream
    \/ ToolStep
    \/ Return

InitScan == NewSession /\ NoAgent

SpecScan == InitScan /\ [][NextScan]_vars

\* One model call over the texts with padded sentinels
NextTags ==
    \/ User
    \/ Complete(TagTexts)
    \/ Feed
    \/ EndStream
    \/ ToolStep
    \/ Return

SpecTags == InitScan /\ [][NextTags]_vars

\* One model call over the texts with long runs
NextRuns ==
    \/ User
    \/ Complete(RunTexts)
    \/ Feed
    \/ EndStream
    \/ ToolStep
    \/ Return

SpecRuns == InitScan /\ [][NextRuns]_vars

\* The whole interaction, with recursion
NextSession ==
    \/ User
    \/ Complete(TurnTexts)
    \/ CompleteFail
    \/ Feed
    \/ StreamError
    \/ EndStream
    \/ ToolStep
    \/ Recurse(TurnTexts)
    \/ RecurseFail
    \/ Return

SpecSession == InitScan /\ [][NextSession]_vars

\* The two programs of the repository, each run on its own: the qwen
\* Session and the Agent
InitPrograms == InitScan \/ InitAgent

NextPrograms ==
    \/ NextSession
    \/ NextAgent

SpecPrograms == InitPrograms /\ [][NextPrograms]_vars

\* ======================================================= scanner claims
NoText == [buf |-> EmptyBuf, text |-> << >>]

\* the scanner's result when the whole text arrives as one fragment
WholeScan(t) == FinalFlush(ProcessContent(NoText, t))

\* the read loop has ended and the final flushes are done
StreamEnded == pc \in {"tools", "done"}

\* the loop over buf.toolCalls has ended
Dispatched == (pc = "tools" /\ idx > Len(buf.toolCalls)) \/ pc = "done"

\* C1: however the response text is cut into fragments, once the stream has
\* ended the concatenated Text output and the captured raw spans are those
\* of the scan of the whole text delivered as a single fragment.
ChunkBoundaryIndependence ==
    StreamEnded =>
        /\ Concat(text) = Concat(WholeScan(stream).text)
        /\ buf.toolCalls = WholeScan(stream).buf.toolCalls

\* a captured call and emitted text, from a stream longer than any fragment
ChunkedCallCaptured ==
    /\ StreamEnded
    /\ Len(stream) > 2 * MaxChunk
    /\ Len(buf.toolCalls) = 1
    /\ Concat(text) # << >>

\* The reading of a well formed response text: blank-free of '<' stretches of
\* plain text alternating with blocks "<tool_call>" payload "</tool_call>"
\* whose payload has no '<'.
NoLt(t) == \A i \in 1..Len(t) : t[i] # "<"

RECURSIVE WellFormed(_)
WellFormed(t) ==
    LET i == Index(t, "<")
    IN IF i = -1 THEN [ok |-> TRUE, plain |-> t, spans |-> << >>, payloads |-> << >>]
       ELSE LET rest == SubSeq(t, i + 1, Len(t))
                body == SubSeq(rest, Len(OpenTag) + 1, Len(rest))
                j == Index(body, "<")
                rest2 == SubSeq(body, j + 1, Len(body))
            IN IF ~HasPrefix(rest, OpenTag) \/ j = -1 \/ ~HasPrefix(rest2, CloseTag)
               THEN [ok |-> FALSE]
               ELSE LET r == WellFormed(SubSeq(rest2, Len(CloseTag) + 1, Len(rest2)))
                        J == SubSeq(body, 1, j)
                    IN IF ~r.ok THEN [ok |-> FALSE]
                       ELSE [ok |-> TRUE,
                             plain |-> SubSeq(t, 1, i) \o r.plain,
                             spans |-> <<OpenTag \o J \o CloseTag>> \o r.spans,
                             payloads |-> <<J>> \o r.payloads]

\* the calls the payloads of the response texts stand for
StringValue(v) == [type |-> "string", val |-> v]
NumberValue(v) == [type |-> "number", val |-> v]
CallT == [k \in {NameKey} |-> StringValue(<<"t">>)]
CallU == [k \in {NameKey, <<"x">>} |-> IF k = NameKey THEN StringValue(<<"u">>)
                                                       ELSE NumberValue(<<"1">>)]
IsCallPayload(J) == TrimSpace(J) \in {PayloadT, PayloadU}
NameIn(J) == IF TrimSpace(J) = PayloadT THEN <<"t">> ELSE <<"u">>
CallIn(J) == IF TrimSpace(J) = PayloadT THEN CallT ELSE CallU

\* C2: for a stream P <tool_call> J </tool_call> S with no '<' in P, J and S
\* and J a JSON object with a string name, the Text output concatenates to
\* P S and exactly one tool call is dispatched, with J's name and fields.
SingleCallRoundTrip ==
    LET w == WellFormed(stream)
    IN (Dispatched /\ w.ok /\ Len(w.payloads) = 1 /\ IsCallPayload(w.payloads[1])) =>
          /\ Concat(text) = w.plain
          /\ Len(toolLog) = 1
          /\ toolLog[1].name = NameIn(w.payloads[1])
          /\ toolLog[1].arg = CallIn(w.payloads[1])

\* the two-field call has been dispatched from between two plain stretches
SingleCallDispatched ==
    /\ Dispatched
    /\ WellFormed(stream).ok
    /\ Len(toolLog) = 1
    /\ toolLog[1].arg = CallU
    /\ Len(Concat(text)) >= 1

\* no stretch of t from a '<' to a later '>' is a sentinel once its
\* whitespace is removed
NoSentinelSpan(t) ==
    \A i \in 1..Len(t) : \A j \in i..Len(t) :
        (t[i] = "<" /\ t[j] = ">") =>
            normalizeTag(SubSeq(t, i, j)) \notin {OpenTag, CloseTag}

\* C3: a stream without any sentinel span is, once it has ended, delivered to
\* Text exactly as it came and yields no tool-call record.
PlainStreamVerbatim ==
    (StreamEnded /\ NoSentinelSpan(stream)) =>
        /\ Concat(text) = stream
        /\ buf.toolCalls = << >>
        /\ toolLog = << >>

\* a text with a stray '<' that stayed pending to the end of the stream
StrayLtDelivered ==
    /\ pc = "done"
    /\ NoSentinelSpan(stream)
    /\ \E i \in 1..Len(stream) : stream[i] = "<"
    /\ Len(text) >= 2
    /\ Head(text[Len(text)]) = "<"

\* t holds no close sentinel that the scanner would recognise
NoCloseSpan(t) ==
    \A i \in 1..Len(t) : \A j \in i..Len(t) :
        (t[i] = "<" /\ t[j] = ">") => normalizeTag(SubSeq(t, i, j)) # CloseTag

\* the stream is a well formed text, an open sentinel and a rest without
\* close sentinel
UnterminatedAt(k) ==
    /\ k + Len(OpenTag) <= Len(stream)
    /\ SubSeq(stream, k + 1, k + Len(OpenTag)) = OpenTag
    /\ WellFormed(SubSeq(stream, 1, k)).ok
    /\ NoCloseSpan(SubSeq(stream, k + 1, Len(stream)))

ThisTurn == SelectSeq(toolLog, LAMBDA e : e.turn = turns)

\* every block of the turn has been called and its result appended, in order
AllBlocksHandled(payloads) ==
    LET k == Len(payloads)
        n == Len(messages)
    IN /\ n > k
       /\ messages[n - k] = Msg("assistant", fullContent)
       /\ Len(ThisTurn) = k
       /\ \A i \in 1..k :
            /\ ThisTurn[i].name = NameIn(payloads[i])
            /\ ThisTurn[i].arg = CallIn(payloads[i])
            /\ messages[n - k + i] = Msg("system", ThisTurn[i].result \o <<"\n">>)

ThisCall == SelectSeq(toolExec, LAMBDA e : e.call = calls)

ToolResultOf(m) == m.Role = "user" /\ Len(m.Content) = 1 /\ m.Content[1].Type = "tool_result"

\* the assistant turn of the current model call is followed by one result
\* turn per tool_use block, in block order, each tool having run once
EveryToolUseAnswered ==
    LET uses == ToolUses(message)
        k == Len(uses)
        n == Len(runMessages)
    IN /\ n > k
       /\ runMessages[n - k] = ToParam(message)
       /\ Len(ThisCall) = k
       /\ \A i \in 1..k :
            /\ ThisCall[i].id = uses[i].ID
            /\ ToolResultOf(runMessages[n - k + i])
            /\ runMessages[n - k + i].Content[1].ToolUseID = uses[i].ID

\* C6: when Run is about to call itself, every tool_use block of the
\* assistant message has been executed, in message order, and has its
\* tool-result turn, in that order.
AllToolUsesBeforeRecursion ==
    apc = "recurse" => EveryToolUseAnswered

\* C7: a model call that succeeded after failed attempts has appended one
\* assistant turn, built from the successful stream alone, and when Run goes
\* on each tool call of that turn has run once and has one result turn.
RetriedCallHandledOnce ==
    (attempt > 1 /\ apc = "recurse") =>
        /\ \E resp \in Responses : message.Content = resp.Content
        /\ Len(SelectSeq(runMessages, LAMBDA m : m.Role = "assistant"))
             = Len(SelectSeq(streamParams.Messages, LAMBDA m : m.Role = "assistant")) + 1
        /\ EveryToolUseAnswered

\* C8: one model call opens at most maxRetries streams, all with the request
\* built at entry; an error of the retry loop is returned only after
\* maxRetries failed streams, is the last stream's error, and leaves the
\* transcript as it was sent, with no tool run for the call.
RetryCeiling ==
    /\ Len(sent) <= maxRetries
    /\ \A i \in 1..Len(sent) : sent[i] = sent[1]
    /\ (apc = "return" /\ ret.err.kind = "streaming") =>
          /\ Len(sent) = maxRetries
          /\ ret.err.cause = lastErr
          /\ ret.messages = sent[1].Messages
          /\ ThisCall = << >>

\* the tenth stream of a recursive model call has failed after text had been
\* printed
RetriesExhausted ==
    /\ apc = "return"
    /\ ret.err.kind = "streaming"
    /\ Len(sent) = maxRetries
    /\ Len(frames) = 2
    /\ display # << >>

\* C9: a further stream is opened only after a transient failure.
OnlyTransientRetried ==
    [][ (apc = "retry" /\ attempt > 1 /\ sent' = Append(sent, streamParams)) =>
            lastErr = "transient" ]_vars

\* C10: once the context is cancelled no stream is opened and no tool is
\* executed.
CancelStopsInteraction ==
    [][ cancelled => (sent' \in {sent, << >>} /\ toolExec' = toolExec) ]_vars

\* some tool_use block of m names a tool that is not registered
HasUnknownTool(m) ==
    \E i \in 1..Len(ToolUses(m)) : ToolUses(m)[i].Name \notin Registry

\* C11: when the assistant message of a model call holds a tool_use block
\* whose name is not registered, Run returns the unknown-tool error without
\* executing a tool and without opening a stream, and the transcript it
\* returns is the one it sent followed by the assistant turn.
UnknownToolIsFatal ==
    [][ (apc = "tools" /\ HasUnknownTool(message)) =>
            /\ apc' = "return"
            /\ ret'.err.kind = "unknown tool"
            /\ toolExec' = toolExec
            /\ sent' = sent
            /\ ret'.messages = Append(streamParams.Messages, ToParam(message)) ]_vars

\* the same for an assistant message whose first tool_use block is the
\* unregistered one
FirstUnknownToolIsFatal ==
    [][ (apc = "tools" /\ ToolUses(message) # << >>
           /\ Head(ToolUses(message)).Name \notin Registry) =>
            /\ apc' = "return"
            /\ ret'.err.kind = "unknown tool"
            /\ toolExec' = toolExec
            /\ sent' = sent
            /\ ret'.messages = Append(streamParams.Messages, ToParam(message)) ]_vars

\* C12: when Execute returns an error, Run returns nothing: it appends one
\* tool-result turn for the block, whose text holds the error's description,
\* and its next step is the recursive Run, which sends the transcript with
\* that turn to the model.
ToolErrorRecovered ==
    [][ /\ (apc = "tools" /\ toolExec' # toolExec /\ toolExec'[Len(toolExec')].err # "") =>
            LET e == toolExec'[Len(toolExec')]
                m == runMessages'[Len(runMessages')]
            IN /\ apc' = "recurse"
               /\ ret' = NoRet
               /\ Len(runMessages') = Len(runMessages) + 1
               /\ SubSeq(runMessages', 1, Len(runMessages)) = runMessages
               /\ ToolResultOf(m)
               /\ m.Content[1].ToolUseID = e.id
               /\ \E i \in 1..Len(m.Content[1].Content) : m.Content[1].Content[i] = e.err
        /\ (apc = "recurse" /\ apc' # "recurse") =>
            /\ apc' = "retry"
            /\ calls' = calls + 1
            /\ streamParams'.Messages = runMessages ]_vars

\* the model call made after a failed tool has been answered
ToolErrorSentToModel ==
    /\ apc = "tools"
    /\ Len(frames) = 2
    /\ toolExec # << >>
    /\ toolExec[Len(toolExec)].err = "failed"
    /\ Len(sent) >= 1
    /\ \E i \in 1..Len(sent[1].Messages) :
          /\ ToolResultOf(sent[1].Messages[i])
          /\ sent[1].Messages[i].Content[1].Content
                = <<"tool execution failed: ", "Error: ", "failed">>

\* ================================================ decoding claims
\* the payloads of a well formed text that are call objects, in text order
CallPayloads(w) == SelectSeq(w.payloads, IsCallPayload)

\* the payload of the span the loop over buf.toolCalls stands at
PayloadAt(i) ==
    SubSeq(buf.toolCalls[i], Len(OpenTag) + 1, Len(buf.toolCalls[i]) - Len(CloseTag))

\* C13: a captured span whose payload is no JSON object with a string name
\* is passed over: the iteration calls no tool, appends no turn and the loop
\* goes on; when the loop has ended the calls made in the turn and the
\* result turns after the assistant turn are those of the other payloads,
\* in text order.
UndecodablePayloadSkipped ==
    [][ LET w == WellFormed(fullContent)
        IN /\ (pc = "tools" /\ w.ok /\ idx <= Len(buf.toolCalls)
                  /\ ~IsCallPayload(PayloadAt(idx))) =>
                 /\ toolLog' = toolLog
                 /\ messages' = messages
                 /\ pc' = "tools"
                 /\ idx' = idx + 1
           /\ (Dispatched /\ w.ok) => AllBlocksHandled(CallPayloads(w)) ]_vars

\* a payload without name stood between two calls, both dispatched
CallsAroundUndecodable ==
    /\ Dispatched
    /\ Len(buf.toolCalls) = 3
    /\ ~IsCallPayload(PayloadAt(2))
    /\ Len(ThisTurn) = 2
    /\ ThisTurn[1].name = <<"t">>
    /\ ThisTurn[2].name = <<"u">>
    /\ messages[Len(messages)].Role = "system"

\* C14: after a turn whose text is well formed, Complete makes its next
\* model call only if at least one call of the turn was decoded and passed
\* to cb.Tool.
NextCallOnlyAfterDispatch ==
    [][ (pc = "tools" /\ pc' = "stream" /\ WellFormed(fullContent).ok) =>
            ThisTurn # << >> ]_vars

\* ============================================== transcript claims
IsPrefix(a, b) == Len(a) <= Len(b) /\ SubSeq(b, 1, Len(a)) = a

\* C15: every step of a Session extends Session.messages; Run starts from
\* the transcript it is given and every step of it extends its messages,
\* what it returns extends what main gave it, and main's transcript is only
\* ever extended.
TranscriptAppendOnly ==
    [][ /\ IsPrefix(messages, messages')
        /\ (apc = "input" /\ apc' = "retry") => IsPrefix(mainMessages, runMessages')
        /\ apc \in {"retry", "tools", "recurse"} => IsPrefix(runMessages, runMessages')
        /\ (apc = "return" /\ apc' = "return") => runMessages' = runMessages
        /\ apc' = "return" => (IsPrefix(runMessages', ret'.messages)
                                /\ IsPrefix(mainMessages, ret'.messages))
        /\ IsPrefix(mainMessages, mainMessages') ]_vars

\* a second interaction has returned to main a transcript that holds the
\* turns of the first
TranscriptGrown ==
    /\ apc = "return"
    /\ interactions = 2
    /\ mainMessages # << >>
    /\ Len(ret.messages) >= Len(mainMessages) + 2

\* the assistant turns among the first i turns
AssistantsUpTo(i) == Cardinality({j \in 1..i : messages[j].Role = "assistant"})

\* the calls cb.Tool received during model call t
TurnCalls(t) == SelectSeq(toolLog, LAMBDA e : e.turn = t)

\* C16: the transcript of a Session starts with the system turn, and every
\* later turn of role system is a tool result: it stands in the run of result
\* turns that directly follows an assistant turn, and holds the result of
\* the call of that model call at its place in the run.
ToolResultsFollowAssistant ==
    /\ Len(messages) >= 1
    /\ messages[1] = Msg("system", SystemPrompt)
    /\ \A i \in 2..Len(messages) :
          messages[i].Role = "system" =>
            \E j \in 2..(i - 1) :
               /\ messages[j].Role = "assistant"
               /\ \A k \in (j + 1)..i : messages[k].Role = "system"
               /\ i - j <= Len(TurnCalls(AssistantsUpTo(j)))
               /\ messages[i].Content
                    = TurnCalls(AssistantsUpTo(j))[i - j].result \o <<"\n">>

\* two model calls, the first with two tool calls, the second with one
TwoResultBlocks ==
    /\ Dispatched
    /\ turns = 2
    /\ Len(TurnCalls(1)) = 2
    /\ Len(TurnCalls(2)) = 1
    /\ TurnCalls(1)[1].result # TurnCalls(2)[1].result
    /\ Len(messages) = 7

\* ==================================================== usage claims
RECURSIVE SumUsage(_)
SumUsage(us) ==
    IF us = << >> THEN [InputTokens |-> 0, OutputTokens |-> 0]
    ELSE LET r == SumUsage(Tail(us))
         IN [InputTokens |-> Head(us).InputTokens + r.InputTokens,
             OutputTokens |-> Head(us).OutputTokens + r.OutputTokens]

\* C17: when Run returns to main, the usage it returns is the sum of the
\* usage recorded by every model call of the interaction, whether the
\* interaction ended with an error or not.
ReturnedUsageIsSum ==
    (apc = "return" /\ Len(frames) = 1) => frames[1] = SumUsage(callUsage)

\* a recursive Run has failed and the first Run returns to main the usage
\* of both calls
UsageSummedOnError ==
    /\ apc = "return"
    /\ Len(frames) = 1
    /\ ret.err # NoErr
    /\ Len(callUsage) = 2
    /\ callUsage[1].InputTokens > 0
    /\ callUsage[2].InputTokens > 0
    /\ callUsage[2].OutputTokens > 0

\* Run returns to main
ReturnsToMain == apc = "return" /\ Len(frames) = 1 /\ apc' = "input"

\* C18: whenever Run returns to main, with or without an error, main's
\* totals grow by the usage Run returned.
SessionTotalsAreSums ==
    [][ ReturnsToMain =>
            totals' = [InputTokens |-> totals.InputTokens + frames[1].InputTokens,
                       OutputTokens |-> totals.OutputTokens + frames[1].OutputTokens] ]_vars

\* the same for the interactions that end without an error
TotalsGrowOnSuccess ==
    [][ (ReturnsToMain /\ ret.err = NoErr) =>
            totals' = [InputTokens |-> totals.InputTokens + frames[1].InputTokens,
                       OutputTokens |-> totals.OutputTokens + frames[1].OutputTokens] ]_vars

\* C19: when Run returns an error to main, main asks for the next prompt
\* and its transcript, from which the next interaction's request is built,
\* is the one Run returned, with the turns appended before the error.
ErrorKeepsTurns ==
    [][ (apc = "return" /\ Len(frames) = 1 /\ ret.err # NoErr /\ apc' # apc) =>
            /\ apc' = "input"
            /\ mainMessages' = ret.messages ]_vars

\* what holds instead: after an error main goes on with the transcript it
\* had before the interaction
ErrorRestoresTranscript ==
    [][ (apc = "return" /\ Len(frames) = 1 /\ ret.err # NoErr /\ apc' # apc) =>
            /\ apc' = "input"
            /\ mainMessages' = mainMessages ]_vars

\* ================================================ call-span claims
\* the scanner after the first k characters of the fragment being delivered
ScannerAt(k) == ProcessChars([buf |-> buf, text |-> text], SubSeq(stream, pos + 1, k))

\* C20: for every character of every delivered fragment: a character that
\* arrives while a tool call is open, or that completes an open sentinel,
\* leaves the Text output as it was; the open sentinel goes whole into the
\* call's raw span, and the close sentinel ends the span with everything
\* received since the open sentinel; a stream that ends inside a call gives
\* no further Text.
NoTextInsideCall ==
    [][ /\ (pc = "stream" /\ pos' > pos) =>
              \A k \in pos..(pos' - 1) :
                 LET s == ScannerAt(k)
                     ch == stream[k + 1]
                     s2 == ProcessChar(s, ch)
                 IN /\ (s.buf.inToolCall \/ s2.buf.inToolCall) => s2.text = s.text
                    /\ (~s.buf.inToolCall /\ s2.buf.inToolCall) =>
                          /\ s2.buf.content = Append(s.buf.pending, ch)
                          /\ normalizeTag(s2.buf.content) = OpenTag
                          /\ s2.buf.pending = << >>
                    /\ (s.buf.inToolCall /\ s2.buf.inToolCall) =>
                          s2.buf.content \o s2.buf.pending
                             = Append(s.buf.content \o s.buf.pending, ch)
                    /\ (s.buf.inToolCall /\ ~s2.buf.inToolCall) =>
                          /\ s2.buf.toolCalls
                               = Append(s.buf.toolCalls,
                                        Append(s.buf.content \o s.buf.pending, ch))
                          /\ s2.buf.content = << >>
                          /\ s2.buf.pending = << >>
        /\ (pc = "stream" /\ pc' = "tools" /\ buf.inToolCall) =>
              (text' = text /\ buf'.inToolCall)
        /\ (pc = "stream" /\ pos' > pos) =>
              (buf' = ScannerAt(pos').buf /\ text' = ScannerAt(pos').text) ]_vars

\* text, a completed call, and a second call, opened by a sentinel with a
\* blank, that the stream ends in
CallSpansKeptFromText ==
    /\ StreamEnded
    /\ buf.inToolCall
    /\ Len(buf.toolCalls) = 1
    /\ text # << >>
    /\ Len(buf.content) > Len(OpenTag)

\* ================================================== sentinel claims
\* the length of the candidate tag that starts at the '<' at t[i]: up to and
\* with the next '>'
CandidateLen(t, i) ==
    LET rest == SubSeq(t, i, Len(t))
    IN IF Index(rest, ">") = -1 THEN Len(rest) ELSE Index(rest, ">") + 1

\* every candidate tag of t fits the pending buffer: at most PendingLimit
\* bytes before its '>'
CandidatesFit(t) ==
    \A i \in 1..Len(t) : t[i] = "<" => CandidateLen(t, i) <= PendingLimit + 1

\* the block of the text was handled as the block with unpadded sentinels is
BlockHandled ==
    /\ Concat(text) = <<"x", "y">>
    /\ buf.toolCalls = <<SubSeq(stream, 2, Len(stream) - 1)>>
    /\ Len(toolLog) = 1
    /\ toolLog[1].name = <<"t">>
    /\ toolLog[1].arg = CallT

\* C21 as stated: a block whose open or close sentinel is padded with any
\* number of blanks at any place is handled as the unpadded block is.
PaddedSentinelMatched ==
    Dispatched => BlockHandled

\* C21 amended: the same when the padded sentinel, from its '<' to its '>',
\* is at most PendingLimit + 1 bytes long.
ShortPaddedSentinelMatched ==
    (Dispatched /\ CandidatesFit(stream)) => BlockHandled

\* a sentinel padded to the longest candidate the buffer takes was matched
LongestPaddedSentinelMatched ==
    /\ Dispatched
    /\ \E i \in 1..Len(stream) : stream[i] = "<" /\ CandidateLen(stream, i) = PendingLimit + 1
    /\ Len(toolLog) = 1
    /\ Concat(text) = <<"x", "y">>

\* C22: outside a tool call, what is still buffered after a character has
\* been consumed is, with its whitespace removed, a prefix of a sentinel;
\* anything else has been passed to Text.
PendingIsSentinelPrefix ==
    (pc = "stream" /\ ~buf.inToolCall) =>
        \/ IsPrefix(normalizeTag(buf.pending), OpenTag)
        \/ IsPrefix(normalizeTag(buf.pending), CloseTag)

\* C23: the pending buffer never holds more than PendingLimit + 1 bytes.
PendingBounded ==
    Len(buf.pending) <= PendingLimit + 1

\* what holds instead: a buffered text that grew by a character other than
\* '<' and '>' is within the limit
PendingBoundedAfterPlainChar ==
    (Len(buf.pending) > 0 /\ buf.pending[Len(buf.pending)] \notin {"<", ">"}) =>
        Len(buf.pending) <= PendingLimit

\* ================================================ stray-character claims
NoGt(t) == \A i \in 1..Len(t) : t[i] # ">"

\* C24: when the stream is a text without '>', which may hold a '<' that
\* starts no sentinel, followed by a well formed text with at least one
\* block, every block gives its record and Text receives the plain text
\* around the blocks and nothing else.
StrayLtKeepsLaterCall ==
    \A k \in 0..Len(stream) :
        LET w == WellFormed(SubSeq(stream, k + 1, Len(stream)))
        IN (Dispatched /\ NoGt(SubSeq(stream, 1, k)) /\ w.ok /\ Len(w.payloads) >= 1) =>
              /\ buf.toolCalls = w.spans
              /\ Concat(text) = SubSeq(stream, 1, k) \o w.plain

\* the raw span is one that an open sentinel started
OpenedSpan(span) == HasPrefix(normalizeTag(span), OpenTag)

\* C25: a close sentinel met while no call is open adds nothing to the
\* completed calls, so every completed call starts with an open sentinel,
\* and the next model call is made only after a turn with such a call.
StrayCloseIgnored ==
    [][ /\ \A i \in 1..Len(buf'.toolCalls) : OpenedSpan(buf'.toolCalls[i])
        /\ (pc = "tools" /\ pc' = "stream") =>
              \E i \in 1..Len(buf.toolCalls) : OpenedSpan(buf.toolCalls[i]) ]_vars

\* ================================================ usage and display claims
\* the retry loop of a model call ends: the stream completed, or the last
\* attempt failed
CallEnds == apc = "retry" /\ apc' \in {"tools", "return"}

\* C26: when the stream of a model call has completed, the usage recorded
\* for the call is what that stream reported, the estimate made before the
\* call being kept for the input counter when the stream reported none;
\* nothing of the attempts that failed before it is in it.
UsageOfCompletedStream ==
    [][ (CallEnds /\ apc' = "tools") =>
          LET u == frames'[Len(frames')]
              est == frames[Len(frames)].InputTokens
          IN /\ \E resp \in Responses :
                   /\ message'.Content = resp.Content
                   /\ message'.Usage = [InputTokens |-> resp.In, OutputTokens |-> resp.Out]
             /\ u.OutputTokens = message'.Usage.OutputTokens
             /\ u.InputTokens = IF message'.Usage.InputTokens > 0
                                 THEN message'.Usage.InputTokens ELSE est ]_vars

\* Agent.Run is entered, by main or by the continuation after tool dispatch
RunEnters == apc \in {"input", "recurse"} /\ apc' = "retry"

\* the turns Agent.Run is entered with
EntryMessages == IF apc = "input" THEN mainMessages ELSE runMessages

UserTurn(p) == [Role |-> "user", Content |-> <<[Type |-> "text", Text |-> p]>>]

NonBlank(p) == \E i \in 1..Len(p) : ~IsSpace(p[i])

AssistantContents ==
    LET a == SelectSeq(messages, LAMBDA m : m.Role = "assistant")
    IN [i \in 1..Len(a) |-> a[i].Content]

\* the turn requests a tool: it holds an open sentinel
RequestsTool(content) ==
    \E i \in 1..Len(content) : HasPrefix(SubSeq(content, i, Len(content)), OpenTag)

\* C28: when the interaction is done, every model call but the last was
\* answered by a turn that requested a tool, so that an interaction whose
\* model requests tools in n consecutive turns has made exactly n+1 model
\* calls.
CallsAreRequestsPlusOne ==
    pc = "done" =>
       \A i \in 1..(Len(AssistantContents) - 1) : RequestsTool(AssistantContents[i])

\* ------------------------------------------------------------ conservation
\* what one scanner step has produced: the strings newly passed to the Text
\* callback, then the raw spans newly captured
NewOutputs(s, s1) ==
    [i \in 1..(Len(s1.text) - Len(s.text)) |->
        [kind |-> "text", str |-> s1.text[Len(s.text) + i]]]
    \o [i \in 1..(Len(s1.buf.toolCalls) - Len(s.buf.toolCalls)) |->
        [kind |-> "span", str |-> s1.buf.toolCalls[Len(s.buf.toolCalls) + i]]]

\* the outputs of the character loop over content, in the order produced
RECURSIVE Produced(_, _, _)
Produced(s, log, content) ==
    IF content = << >> THEN [s |-> s, log |-> log]
    ELSE LET s1 == ProcessChar(s, Head(content))
             log1 == log \o NewOutputs(s, s1)
         IN IF log1 = log THEN Produced(s1, log, Tail(content))
            ELSE Produced(s1, log1, Tail(content))

\* the outputs of the scan of a whole stream, the final flushes included
ProducedAll(t) ==
    LET r == Produced(NoText, << >>, t)
    IN r.log \o NewOutputs(r.s, FinalFlush(r.s))

StrsOf(log, kind) ==
    LET sel == SelectSeq(log, LAMBDA o : o.kind = kind)
    IN [i \in 1..Len(sel) |-> sel[i].str]

\* C29: when the stream has ended outside a tool call, the strings passed to
\* the Text callback and the captured raw spans, interleaved in the order
\* they were produced, concatenate to the full streamed content, which is
\* the content of the assistant turn appended.
ScannerConservesContent ==
    (StreamEnded /\ ~buf.inToolCall) =>
        LET log == ProducedAll(stream)
        IN /\ StrsOf(log, "text") = text
           /\ StrsOf(log, "span") = buf.toolCalls
           /\ Concat([i \in 1..Len(log) |-> log[i].str]) = fullContent
           /\ AssistantContents[Len(AssistantContents)] = fullContent
           /\ fullContent = stream

\* a stream with a stray "<", a call and text after it has ended: Text
\* strings and a span were produced in turn
InterleavedOutputs ==
    /\ StreamEnded /\ ~buf.inToolCall
    /\ Len(buf.toolCalls) >= 1
    /\ \E i \in 1..Len(ProducedAll(stream)) :
          /\ ProducedAll(stream)[i].kind = "span"
          /\ i > 1 /\ i < Len(ProducedAll(stream))
    /\ \E j \in 1..Len(text) : Len(text[j]) > 1

\* C30: when the stream of a model call has completed, the text printed
\* during the call is the text of the assistant turn appended for it, once:
\* nothing printed by an attempt that failed and was retried is among it.
DisplayIsAssistantText ==
    [][ (CallEnds /\ apc' = "tools") =>
          /\ runMessages'[Len(runMessages')] = ToParam(message')
          /\ display' = TextOf(message'.Content) ]_vars

\* the same for the model calls whose first attempt completes
DisplayOfFirstAttempt ==
    [][ (CallEnds /\ apc' = "tools" /\ attempt = 1) =>
          /\ runMessages'[Len(runMessages')] = ToParam(message')
          /\ display' = TextOf(message'.Content) ]_vars

\* a call completed by a later attempt with a stream that reported no input
\* counter, after an attempt that had printed text and failed: the estimate
\* is kept and the output counter is the completed stream's
RetriedCallKeepsEstimate ==
    /\ apc = "tools" /\ attempt > 1
    /\ display # << >> /\ TextOf(message.Content) = << >>
    /\ message.Usage = [InputTokens |-> 0, OutputTokens |-> 2]
    /\ frames[Len(frames)] = [InputTokens |-> EstimateTokens, OutputTokens |-> 2]

====
